---- MODULE Spec2Model ----
(***************************************************************************)
(* Model of src/graph.rs: the boolean one-of constraint graph (Graph) and  *)
(* its solver (Graph::solve).                                              *)
(*                                                                         *)
(* A client builds a Graph with new_node / set_node / require_* and then   *)
(* calls solve, which consumes the graph.  solve is recursive; the model   *)
(* keeps the recursion as an explicit stack of frames, one frame per       *)
(* active call, and one action per phase of the body of its loop.          *)
(***************************************************************************)
EXTENDS Integers, Sequences, FiniteSets, TLC

\* Bounds of the exploration.
MaxNodes == 3
MaxGroups == 2
MaxLen == 3

VARIABLES
    nodes,          \* Graph.nodes of the client's graph; nodes[i + 1] is Rust's nodes[i]
    one_of_groups,  \* Graph.one_of_groups of the client's graph
    last,           \* the last client call and what it returned
    stack,          \* the active calls of solve, outermost first
    result          \* what the outermost solve returned

vars == <<nodes, one_of_groups, last, stack, result>>

--------------------------------------------------------------------------
\* NodeData: "U" is Unknown, "T" is Known(true), "F" is Known(false).
NodeData == {"U", "T", "F"}

Known(value) == IF value THEN "T" ELSE "F"

\* The handles issued so far by new_node on a store nd (index 0 is the sentinel).
Handles(nd) == 1 .. (Len(nd) - 1)

\* Graph::default
Default == [nodes |-> <<Known(FALSE)>>, one_of_groups |-> <<>>]

\* new_node as it would be if handles were plain indices counted from zero.
NewNodeFromZero(nd) == [nodes |-> Append(nd, "U"), node |-> Len(nd) - 1]

\* Graph::new_node: the handle is the length of the store before the push.
NewNode(nd) == [nodes |-> Append(nd, "U"), node |-> Len(nd)]

\* Graph::get_node: "T" is Some(true), "F" is Some(false), "U" is None.
GetNode(nd, node) == nd[node + 1]

\* set_node as it would be if it compared before writing and left the slot alone
\* on a mismatch.
SetNodeKeepsOld(nd, node, value) ==
    IF nd[node + 1] = Known(~value)
    THEN [nodes |-> nd, res |-> "Err"]
    ELSE [nodes |-> [nd EXCEPT ![node + 1] = Known(value)], res |-> "Ok"]

\* set_node as it would be if any write to a known slot were refused.
SetNodeRejectsKnown(nd, node, value) ==
    [nodes |-> [nd EXCEPT ![node + 1] = Known(value)],
     res   |-> IF nd[node + 1] # "U" THEN "Err" ELSE "Ok"]

\* Graph::set_node: the slot is overwritten first, then the old value is compared.
SetNode(nd, node, value) ==
    [nodes |-> [nd EXCEPT ![node + 1] = Known(value)],
     res   |-> IF nd[node + 1] = Known(~value) THEN "Err" ELSE "Ok"]

\* `for node in seq { node.set(&mut self, value)?; }`: stops at the first Err.
RECURSIVE SetEach(_, _, _)
SetEach(nd, seq, value) ==
    IF seq = <<>> THEN [nodes |-> nd, res |-> "Ok"]
    ELSE LET r == SetNode(nd, Head(seq), value)
         IN  IF r.res = "Err" THEN r ELSE SetEach(r.nodes, Tail(seq), value)

Range(seq) == {seq[i] : i \in 1 .. Len(seq)}

--------------------------------------------------------------------------
\* The sweep over the one-of groups (the first part of the loop body).

\* found_true after one more member: Ok(false) is "no", Ok(true) is "yes",
\* Err(Contradiction) is "err".
FoundNext(found, known) ==
    IF known = "T"
    THEN (IF found = "yes" THEN "err" ELSE "yes")
    ELSE found

\* found_true after nodes.retain has visited every member of ns.
RECURSIVE FoundTrue(_, _)
FoundTrue(nd, ns) ==
    IF ns = <<>> THEN "no"
    ELSE FoundNext(FoundTrue(nd, SubSeq(ns, 1, Len(ns) - 1)), GetNode(nd, ns[Len(ns)]))

\* retain as it would be if it dropped only the members that read Some(true).
RetainedNotTrue(nd, ns) == SelectSeq(ns, LAMBDA n : GetNode(nd, n) # "T")

\* retain as it would be if it kept every member, known or not.
RetainedAll(nd, ns) == ns

\* What nodes.retain keeps: the members that read None.
Retained(nd, ns) == SelectSeq(ns, LAMBDA n : GetNode(nd, n) = "U")

\* The changed flag as it would be if retain never raised it.
SawKnownNever(nd, ns) == FALSE

\* Whether retain saw a known member (changed |= known.is_some()).
SawKnown(nd, ns) == \E i \in 1 .. Len(ns) : GetNode(nd, ns[i]) # "U"

\* One iteration of `for (nodes, exact) in &mut one_of_groups`.
\* st = [nodes, groups, changed, err]: the store, the groups as left so far,
\* the changed flag and whether solve has returned Err (the store is then the
\* store at that return).
SweepGroup(st, g) ==
    LET found == FoundTrue(st.nodes, g.nodes)
        kept  == Retained(st.nodes, g.nodes)
        chg   == st.changed \/ SawKnown(st.nodes, g.nodes)
    IN  IF found = "err" THEN [st EXCEPT !.err = TRUE]
        ELSE IF found = "yes"
        THEN LET r == SetEach(st.nodes, kept, FALSE)
             IN  IF r.res = "Err" THEN [st EXCEPT !.nodes = r.nodes, !.err = TRUE]
                 ELSE [nodes |-> r.nodes,
                       groups |-> Append(st.groups, [nodes |-> <<>>, exact |-> g.exact]),
                       changed |-> chg, err |-> FALSE]
        ELSE IF g.exact /\ kept = <<>> THEN [st EXCEPT !.err = TRUE]
        ELSE IF g.exact /\ Len(kept) = 1
        THEN LET r == SetNode(st.nodes, kept[1], TRUE)
             IN  IF r.res = "Err" THEN [st EXCEPT !.nodes = r.nodes, !.err = TRUE]
                 ELSE [nodes |-> r.nodes,
                       groups |-> Append(st.groups, [nodes |-> <<>>, exact |-> g.exact]),
                       changed |-> TRUE, err |-> FALSE]
        ELSE [nodes |-> st.nodes,
              groups |-> Append(st.groups, [nodes |-> kept, exact |-> g.exact]),
              changed |-> chg, err |-> FALSE]

RECURSIVE SweepFrom(_, _)
SweepFrom(st, rest) ==
    IF st.err \/ rest = <<>> THEN st
    ELSE SweepFrom(SweepGroup(st, Head(rest)), Tail(rest))

\* one_of_groups.retain(|(nodes, _)| !nodes.is_empty())
CleanUp(groups) == SelectSeq(groups, LAMBDA g : g.nodes # <<>>)

\* The cleanup and the whole for loop of one pass of the loop.
SweepAll(nd, groups) ==
    SweepFrom([nodes |-> nd, groups |-> <<>>, changed |-> FALSE, err |-> FALSE],
              CleanUp(groups))

--------------------------------------------------------------------------
\* Subset absorption (the second part of the loop body).

\* one_of_groups.sort_by_key(|(nodes, _)| nodes.len()): a stable sort.
RECURSIVE SortFrom(_, _)
SortFrom(groups, k) ==
    IF \A i \in 1 .. Len(groups) : Len(groups[i].nodes) < k THEN <<>>
    ELSE SelectSeq(groups, LAMBDA g : Len(g.nodes) = k) \o SortFrom(groups, k + 1)

SortByLen(groups) == SortFrom(groups, 0)

\* The test the two nested loops make of needle i and haystack j.
Absorbs(groups, i, j) ==
    /\ groups[i].exact
    /\ i < j
    /\ Len(groups[j].nodes) > Len(groups[i].nodes)
    /\ \A k \in 1 .. Len(groups[i].nodes) :
           groups[i].nodes[k] \in Range(groups[j].nodes)

\* The pairs in the order the loops visit them; the first that passes is taken.
AbsorbPairs(groups) ==
    {p \in (1 .. Len(groups)) \X (1 .. Len(groups)) : Absorbs(groups, p[1], p[2])}

FirstPair(ps) ==
    CHOOSE p \in ps : \A q \in ps : p[1] < q[1] \/ (p[1] = q[1] /\ p[2] <= q[2])

\* The absorption as it would be if it drained the haystack and forced nothing.
AbsorbIntoDrainOnly(nd, groups, i, j) ==
    [nodes |-> nd,
     groups |-> [groups EXCEPT ![j].nodes = <<>>],
     changed |-> TRUE,
     err |-> FALSE]

\* The absorption as it would be if it drained the needle instead of the haystack.
AbsorbIntoDrainNeedle(nd, groups, i, j) ==
    LET outside == SelectSeq(groups[j].nodes, LAMBDA n : n \notin Range(groups[i].nodes))
        r == SetEach(nd, outside, FALSE)
    IN  [nodes |-> r.nodes,
         groups |-> [groups EXCEPT ![i].nodes = <<>>],
         changed |-> TRUE,
         err |-> r.res = "Err"]

\* `for node in haystack.drain(..) { if !needles.contains(&node) { set false ? } }`
AbsorbInto(nd, groups, i, j) ==
    LET needles == groups[i].nodes
        outside == SelectSeq(groups[j].nodes, LAMBDA n : n \notin Range(needles))
        r == SetEach(nd, outside, FALSE)
    IN  [nodes |-> r.nodes,
         groups |-> [groups EXCEPT ![j].nodes = <<>>],
         changed |-> TRUE,
         err |-> r.res = "Err"]

\* The sort and the scan for one containment.
AbsorbAll(nd, groups) ==
    LET sorted == SortByLen(groups)
        ps == AbsorbPairs(sorted)
    IN  IF ps = {}
        THEN [nodes |-> nd, groups |-> sorted, changed |-> FALSE, err |-> FALSE]
        ELSE AbsorbInto(nd, sorted, FirstPair(ps)[1], FirstPair(ps)[2])

--------------------------------------------------------------------------
\* Frames of solve.  pc is where the call is in the loop body:
\*   "sweep"  at the top of the loop
\*   "absorb" after a sweep that changed nothing
\*   "branch" after an absorption scan that changed nothing, groups not empty
\*   "wait"   inside alternate.solve()
\*   "ok" / "err"  about to return Ok(self) / Err(Contradiction)
\*   "panic"  an unwrap() or an index failed
NoNode == 0

Frame(nd, groups) ==
    [nodes |-> nd, groups |-> groups, pc |-> "sweep", candidate |-> NoNode]

Top == stack[Len(stack)]

SetTop(f) == [stack EXCEPT ![Len(stack)] = f]

\* The record of a client call: op(node, value) returned res.  prior is what the
\* call before it returned when that was the very same set_node(node, value),
\* and "none" otherwise.
Call(op, node, value, res, prior) ==
    [op |-> op, node |-> node, value |-> value, res |-> res, prior |-> prior]

NoCall == Call("none", NoNode, FALSE, "Ok", "none")

Prior(node, value) ==
    IF last.op = "set_node" /\ last.node = node /\ last.value = value
    THEN last.res ELSE "none"

NoResult == [kind |-> "none", nodes |-> <<>>, one_of_groups |-> <<>>]

Building == stack = <<>> /\ result.kind = "none"

\* The sequences of at most MaxLen handles of the store nd.
Members(nd) == UNION {[1 .. n -> Handles(nd)] : n \in 0 .. MaxLen}

--------------------------------------------------------------------------
\* The client's calls.  They leave `last` to the specification: Spec does not
\* record the calls, ApiSpec (below) does.

Init ==
    /\ nodes = Default.nodes
    /\ one_of_groups = Default.one_of_groups
    /\ last = NoCall
    /\ stack = <<>>
    /\ result = NoResult

new_node ==
    /\ Building
    /\ Len(nodes) <= MaxNodes
    /\ nodes' = NewNode(nodes).nodes
    /\ UNCHANGED <<one_of_groups, stack, result>>

set_node(node, value) ==
    /\ Building
    /\ node \in Handles(nodes)
    /\ nodes' = SetNode(nodes, node, value).nodes
    /\ UNCHANGED <<one_of_groups, stack, result>>

require_at_most_one_of(ns) ==
    /\ Building
    /\ Len(one_of_groups) < MaxGroups
    /\ one_of_groups' = Append(one_of_groups, [nodes |-> ns, exact |-> FALSE])
    /\ UNCHANGED <<nodes, stack, result>>

require_exactly_one_of(ns) ==
    /\ Building
    /\ Len(one_of_groups) < MaxGroups
    /\ one_of_groups' = Append(one_of_groups, [nodes |-> ns, exact |-> TRUE])
    /\ UNCHANGED <<nodes, stack, result>>

\* The call g.solve(): the graph is moved into the call; nodes and
\* one_of_groups keep the state that was passed.
solve ==
    /\ Building
    /\ stack' = <<Frame(nodes, one_of_groups)>>
    /\ UNCHANGED <<nodes, one_of_groups, last, result>>

--------------------------------------------------------------------------
\* The steps of solve, taken by the innermost active call.

Running == stack # <<>> /\ result.kind = "none"

Sweep ==
    /\ Running
    /\ Top.pc = "sweep"
    /\ LET s == SweepAll(Top.nodes, Top.groups)
       IN  stack' = SetTop(
               IF s.err THEN [Top EXCEPT !.nodes = s.nodes, !.pc = "err"]
               ELSE [Top EXCEPT !.nodes = s.nodes, !.groups = s.groups,
                                !.pc = IF s.changed THEN "sweep" ELSE "absorb"])
    /\ UNCHANGED <<nodes, one_of_groups, last, result>>

Absorb ==
    /\ Running
    /\ Top.pc = "absorb"
    /\ LET a == AbsorbAll(Top.nodes, Top.groups)
       IN  stack' = SetTop(
               IF a.err THEN [Top EXCEPT !.nodes = a.nodes, !.pc = "err"]
               ELSE [Top EXCEPT !.nodes = a.nodes, !.groups = a.groups,
                                !.pc = IF a.changed THEN "sweep"
                                       ELSE IF a.groups = <<>> THEN "ok"
                                       ELSE "branch"])
    /\ UNCHANGED <<nodes, one_of_groups, last, result>>

\* The first exact group, if any: the for loop skips the others and leaves
\* at the first exact one in both match arms.
ExactGroups(groups) == {i \in 1 .. Len(groups) : groups[i].exact}

FirstExact(groups) ==
    CHOOSE i \in ExactGroups(groups) : \A j \in ExactGroups(groups) : i <= j

Branch ==
    /\ Running
    /\ Top.pc = "branch"
    /\ IF ExactGroups(Top.groups) = {}
       THEN stack' = SetTop([Top EXCEPT !.pc = "sweep"])
       ELSE LET g == Top.groups[FirstExact(Top.groups)]
            IN  IF g.nodes = <<>>
                THEN stack' = SetTop([Top EXCEPT !.pc = "panic"])
                ELSE LET r == SetNode(Top.nodes, g.nodes[1], TRUE)
                     IN  IF r.res = "Err"
                         THEN stack' = SetTop([Top EXCEPT !.pc = "panic"])
                         ELSE stack' = Append(
                                  SetTop([Top EXCEPT !.pc = "wait",
                                                     !.candidate = g.nodes[1]]),
                                  Frame(r.nodes, Top.groups))
    /\ UNCHANGED <<nodes, one_of_groups, last, result>>

\* Ok(alternate) => return Ok(alternate)
BranchOk ==
    /\ Running
    /\ Len(stack) > 1
    /\ Top.pc = "ok"
    /\ stack' = [SubSeq(stack, 1, Len(stack) - 1) EXCEPT ![Len(stack) - 1] =
                    [Top EXCEPT !.candidate = NoNode]]
    /\ UNCHANGED <<nodes, one_of_groups, last, result>>

\* The Err arm as it would be if it passed the branch's Contradiction on.
BranchErrGivesUp ==
    /\ Running
    /\ Len(stack) > 1
    /\ Top.pc = "err"
    /\ stack' = [SubSeq(stack, 1, Len(stack) - 1) EXCEPT ![Len(stack) - 1] =
                    [stack[Len(stack) - 1] EXCEPT !.pc = "err", !.candidate = NoNode]]
    /\ UNCHANGED <<nodes, one_of_groups, last, result>>

\* The Err arm as it would be if the branch had worked on the caller's store
\* instead of a clone of it.
BranchErrShared ==
    /\ Running
    /\ Len(stack) > 1
    /\ Top.pc = "err"
    /\ LET caller == stack[Len(stack) - 1]
       IN  stack' = [SubSeq(stack, 1, Len(stack) - 1) EXCEPT ![Len(stack) - 1] =
                        [caller EXCEPT
                            !.nodes = [Top.nodes EXCEPT ![caller.candidate + 1] = "F"],
                            !.pc = "sweep", !.candidate = NoNode]]
    /\ UNCHANGED <<nodes, one_of_groups, last, result>>

\* Err(Contradiction) => { candidate.set(&mut self, false).unwrap(); break; }
BranchErr ==
    /\ Running
    /\ Len(stack) > 1
    /\ Top.pc = "err"
    /\ LET caller == stack[Len(stack) - 1]
           r == SetNode(caller.nodes, caller.candidate, FALSE)
       IN  stack' = [SubSeq(stack, 1, Len(stack) - 1) EXCEPT ![Len(stack) - 1] =
                        IF r.res = "Err"
                        THEN [caller EXCEPT !.pc = "panic"]
                        ELSE [caller EXCEPT !.nodes = r.nodes, !.pc = "sweep",
                                            !.candidate = NoNode]]
    /\ UNCHANGED <<nodes, one_of_groups, last, result>>

\* The outermost call returns: Ok(self) with self.one_of_groups = one_of_groups,
\* or Err(Contradiction).
Return ==
    /\ Running
    /\ Len(stack) = 1
    /\ Top.pc \in {"ok", "err"}
    /\ result' = IF Top.pc = "ok"
                 THEN [kind |-> "ok", nodes |-> Top.nodes, one_of_groups |-> Top.groups]
                 ELSE [kind |-> "err", nodes |-> <<>>, one_of_groups |-> <<>>]
    /\ stack' = <<>>
    /\ UNCHANGED <<nodes, one_of_groups, last>>

SolveStep == Sweep \/ Absorb \/ Branch \/ BranchOk \/ BranchErr \/ Return

Next ==
    \/ new_node /\ UNCHANGED last
    \/ \E node \in Handles(nodes), value \in BOOLEAN :
           set_node(node, value) /\ UNCHANGED last
    \/ \E ns \in Members(nodes) : require_at_most_one_of(ns) /\ UNCHANGED last
    \/ \E ns \in Members(nodes) : require_exactly_one_of(ns) /\ UNCHANGED last
    \/ solve
    \/ SolveStep

Spec == Init /\ [][Next]_vars

--------------------------------------------------------------------------
\* The client's calls with what each returned recorded in `last`.
ApiGroups == 1

CallNewNode ==
    /\ new_node
    /\ last' = Call("new_node", NewNode(nodes).node, FALSE, "Ok", "none")

CallSetNode(node, value) ==
    /\ set_node(node, value)
    /\ last' = Call("set_node", node, value, SetNode(nodes, node, value).res,
                     Prior(node, value))

CallRequireAtMostOneOf(ns) ==
    /\ Len(one_of_groups) < ApiGroups
    /\ require_at_most_one_of(ns)
    /\ last' = Call("require", NoNode, FALSE, "Ok", "none")

CallRequireExactlyOneOf(ns) ==
    /\ Len(one_of_groups) < ApiGroups
    /\ require_exactly_one_of(ns)
    /\ last' = Call("require", NoNode, TRUE, "Ok", "none")

ApiNext ==
    \/ CallNewNode
    \/ \E node \in Handles(nodes), value \in BOOLEAN : CallSetNode(node, value)
    \/ \E ns \in Members(nodes) : CallRequireAtMostOneOf(ns)
    \/ \E ns \in Members(nodes) : CallRequireExactlyOneOf(ns)

ApiSpec == Init /\ [][ApiNext]_vars

--------------------------------------------------------------------------
\* solve alone, entered on any graph of SolveNodes nodes and at most
\* SolveGroups groups of at most SolveLen members each, run to completion:
\* the call is synchronous, so a step that can be taken is taken.
SolveNodes == 2
SolveGroups == 2
SolveLen == 2

SolveStores == {nd \in [1 .. SolveNodes + 1 -> NodeData] : nd[1] = "F"}

SolveMembers == UNION {[1 .. n -> 1 .. SolveNodes] : n \in 0 .. SolveLen}

SolveGroupSet == [nodes : SolveMembers, exact : BOOLEAN]

SolveInit ==
    /\ nodes \in SolveStores
    /\ one_of_groups \in UNION {[1 .. n -> SolveGroupSet] : n \in 0 .. SolveGroups}
    /\ last = NoCall
    /\ stack = <<Frame(nodes, one_of_groups)>>
    /\ result = NoResult

SolveSpec == SolveInit /\ [][SolveStep]_vars /\ WF_vars(SolveStep)

--------------------------------------------------------------------------
\* What the claims speak about.  Once solve has been called, nodes and
\* one_of_groups are the state that was passed to it.

Solved == result.kind = "ok"

Failed == result.kind = "err"

\* The member nodes of group g that read Some(true) in store nd.
TrueMembers(nd, g) == {n \in Range(g.nodes) : GetNode(nd, n) = "T"}

\* The occurrences of members in group g that read Some(true) in store nd.
TruePositions(nd, g) == {i \in 1 .. Len(g.nodes) : GetNode(nd, g.nodes[i]) = "T"}

\* The total assignments (as stores) that agree with the known slots of nd.
Totals(nd) ==
    {a \in [1 .. Len(nd) -> {"T", "F"}] :
        \A i \in 1 .. Len(nd) : nd[i] # "U" => a[i] = nd[i]}

\* Store a satisfies group g, counting distinct member nodes.
Holds(a, g) ==
    IF g.exact THEN Cardinality(TrueMembers(a, g)) = 1
    ELSE Cardinality(TrueMembers(a, g)) <= 1

\* Store a satisfies group g, counting every occurrence of a member.
HoldsCounted(a, g) ==
    IF g.exact THEN Cardinality(TruePositions(a, g)) = 1
    ELSE Cardinality(TruePositions(a, g)) <= 1

Satisfiable(nd, groups) ==
    \E a \in Totals(nd) : \A i \in 1 .. Len(groups) : Holds(a, groups[i])

SatisfiableCounted(nd, groups) ==
    \E a \in Totals(nd) : \A i \in 1 .. Len(groups) : HoldsCounted(a, groups[i])

\* Store b keeps every known slot of store a.
Keeps(a, b) ==
    /\ Len(a) = Len(b)
    /\ \A i \in 1 .. Len(a) : a[i] # "U" => b[i] = a[i]

\* The innermost call is at the top of its loop.
AtSweep == Running /\ Top.pc = "sweep"

--------------------------------------------------------------------------
\* C1: if solve returns Ok, then in the returned state at most one member
\* node of every registered at-most-one group reads Some(true).
C1_AtMostOneTrue ==
    Solved =>
        \A i \in 1 .. Len(one_of_groups) :
            ~one_of_groups[i].exact =>
                Cardinality(TrueMembers(result.nodes, one_of_groups[i])) <= 1

\* C2: if solve returns Ok, then in the returned state exactly one member node
\* of every registered exactly-one group with a member reads Some(true) and
\* every other member reads Some(false).
C2_ExactlyOneTrue ==
    Solved =>
        \A i \in 1 .. Len(one_of_groups) :
            (one_of_groups[i].exact /\ one_of_groups[i].nodes # <<>>) =>
                /\ Cardinality(TrueMembers(result.nodes, one_of_groups[i])) = 1
                /\ \A n \in Range(one_of_groups[i].nodes) :
                       GetNode(result.nodes, n) \in {"T", "F"}

\* C3: every call of solve ends: it returns Ok or Err(Contradiction).
C3_Terminates == <>(result.kind # "none")

\* C4: if no total assignment that agrees with the pre-assigned values
\* satisfies every registered group, solve does not return Ok.
C4_UnsatNeverOk == Solved => Satisfiable(nodes, one_of_groups)

\* C5 as stated: if some total assignment agrees with the pre-assigned values
\* and satisfies every group, a group counting its distinct true member nodes,
\* then solve does not return Err(Contradiction).
C5_SatNeverErr == Failed => ~Satisfiable(nodes, one_of_groups)

\* C5 as amended: if some total assignment agrees with the pre-assigned values
\* and satisfies every group, a group counting every occurrence of a true
\* member, then solve does not return Err(Contradiction).
C5_SatCountedNeverErr == Failed => ~SatisfiableCounted(nodes, one_of_groups)

\* A branch of the outermost call has just ended in Contradiction on an input
\* that an assignment satisfies: the candidate is about to be forced false.
C5_Witness ==
    /\ Running
    /\ Len(stack) = 2
    /\ Top.pc = "err"
    /\ SatisfiableCounted(nodes, one_of_groups)

\* C6: a sweep that meets a group more than one of whose member nodes reads
\* Some(true) makes solve return Err(Contradiction).
C6_TwoTrueIsContradiction ==
    [][(/\ AtSweep
        /\ \E i \in 1 .. Len(Top.groups) :
               Cardinality(TrueMembers(Top.nodes, Top.groups[i])) > 1)
       => stack'[Len(stack)].pc = "err"]_vars

\* C7: an exactly-one group none of whose members was found true and whose
\* member set is empty makes solve return Err(Contradiction), both when its
\* remaining members all read Some(false) at a sweep and when it was
\* registered with no member.
C7_EmptyExactIsContradiction ==
    [][(/\ AtSweep
        /\ \E i \in 1 .. Len(Top.groups) :
               /\ Top.groups[i].exact
               /\ \A k \in 1 .. Len(Top.groups[i].nodes) :
                      GetNode(Top.nodes, Top.groups[i].nodes[k]) = "F"
               /\ \/ Top.groups[i].nodes # <<>>
                  \/ Len(stack) = 1 /\ Top.groups = one_of_groups)
       => stack'[Len(stack)].pc = "err"]_vars

\* C8: set_node(n, v) on a node that is Known(not v) returns Err(Contradiction)
\* and leaves the slot Known(v); no other slot and no group changes.
C8_ConflictingWrite ==
    [][\A n \in Handles(nodes), v \in BOOLEAN :
           (CallSetNode(n, v) /\ GetNode(nodes, n) = Known(~v)) =>
               /\ last'.res = "Err"
               /\ GetNode(nodes', n) = Known(v)
               /\ Len(nodes') = Len(nodes)
               /\ \A i \in 1 .. Len(nodes) : i # n + 1 => nodes'[i] = nodes[i]
               /\ one_of_groups' = one_of_groups]_vars

\* A conflicting write has just returned Err and the slot holds the new value.
C8_Witness ==
    /\ last.op = "set_node"
    /\ last.res = "Err"
    /\ GetNode(nodes, last.node) = Known(last.value)
    /\ one_of_groups # <<>>

\* C9 as stated: for any node n and value v, of set_node(n, v) followed by
\* set_node(n, v) both return Ok, get_node(n) is Some(v) after each, and the
\* second changes nothing.
C9_BothOk ==
    [][\A n \in Handles(nodes), v \in BOOLEAN :
           (/\ last.op = "set_node" /\ last.node = n /\ last.value = v
            /\ CallSetNode(n, v)) =>
               /\ last.res = "Ok"
               /\ last'.res = "Ok"
               /\ GetNode(nodes, n) = Known(v)
               /\ nodes' = nodes
               /\ one_of_groups' = one_of_groups]_vars

\* C9 as amended: set_node(n, v) returns Ok unless n was Known(not v), and then
\* Err; in both cases get_node(n) is Some(v) after it, and a set_node(n, v)
\* that follows at once returns Ok and changes nothing.
C9_SecondOk ==
    [][\A n \in Handles(nodes), v \in BOOLEAN :
           CallSetNode(n, v) =>
               /\ last'.res = IF GetNode(nodes, n) = Known(~v) THEN "Err" ELSE "Ok"
               /\ GetNode(nodes', n) = Known(v)
               /\ (last.op = "set_node" /\ last.node = n /\ last.value = v) =>
                      /\ last'.res = "Ok"
                      /\ nodes' = nodes
                      /\ one_of_groups' = one_of_groups]_vars

\* set_node(n, v) has just been called a second time in a row, after a first
\* call that returned Err, and returned Ok.
C9_Witness ==
    /\ last.op = "set_node"
    /\ last.prior = "Err"
    /\ last.res = "Ok"
    /\ GetNode(nodes, last.node) = Known(last.value)

\* Every handle is pre-assigned and the assignment satisfies every group
\* (each occurrence of a member counted).
Completed ==
    /\ \A n \in Handles(nodes) : GetNode(nodes, n) # "U"
    /\ \A i \in 1 .. Len(one_of_groups) : HoldsCounted(nodes, one_of_groups[i])

--------------------------------------------------------------------------
\* The member nodes of the groups passed to solve.
Constrained == UNION {Range(one_of_groups[i].nodes) : i \in 1 .. Len(one_of_groups)}

\* C11: when solve returns Ok the returned state has no group left and every
\* node that was a member of a registered group reads Some(true) or
\* Some(false), never None.
C11_FullyDetermined ==
    Solved =>
        /\ result.one_of_groups = <<>>
        /\ \A n \in Constrained : GetNode(result.nodes, n) \in {"T", "F"}

\* solve has returned Ok on an input where an exactly-one group of two Unknown
\* members lay inside a larger group of Unknown members: the absorption has
\* taken the members of the larger group out of it while they were Unknown.
C11_Witness ==
    /\ Solved
    /\ \E i, j \in 1 .. Len(one_of_groups) :
           /\ one_of_groups[i].exact
           /\ Len(one_of_groups[i].nodes) = 2
           /\ Len(one_of_groups[j].nodes) = 3
           /\ Range(one_of_groups[i].nodes) \subseteq Range(one_of_groups[j].nodes)
           /\ Cardinality(Range(one_of_groups[j].nodes)) = 3
           /\ \A n \in Range(one_of_groups[j].nodes) : GetNode(nodes, n) = "U"

\* C13: whenever solve returns Ok, for every registered exactly-one group N
\* and registered group H such that the members of N are a strict subset of
\* the members of H, every member of H that is not a member of N reads
\* Some(false).
C13_OutsideNeedleFalse ==
    Solved =>
        \A i, j \in 1 .. Len(one_of_groups) :
            (/\ one_of_groups[i].exact
             /\ Range(one_of_groups[i].nodes) \subseteq Range(one_of_groups[j].nodes)
             /\ Range(one_of_groups[i].nodes) # Range(one_of_groups[j].nodes)) =>
                \A n \in Range(one_of_groups[j].nodes) \ Range(one_of_groups[i].nodes) :
                    GetNode(result.nodes, n) = "F"

\* C14: new_node returns the handle k on its k-th call: a handle of at least
\* 1, above every handle issued before, whose slot is the new one and reads
\* None; the call changes no slot that existed and no group.
C14_FreshHandle ==
    [][CallNewNode =>
           /\ last'.node = Cardinality(Handles(nodes)) + 1
           /\ last'.node >= 1
           /\ \A h \in Handles(nodes) : h < last'.node
           /\ Handles(nodes') = Handles(nodes) \cup {last'.node}
           /\ GetNode(nodes', last'.node) = "U"
           /\ \A h \in Handles(nodes) : GetNode(nodes', h) = GetNode(nodes, h)
           /\ nodes'[1] = nodes[1]
           /\ nodes[1] = "F"
           /\ one_of_groups' = one_of_groups]_vars

\* new_node has just returned its second handle, after a node was assigned and
\* a group registered.
C14_Witness ==
    /\ last.op = "new_node"
    /\ last.node = 2
    /\ GetNode(nodes, 1) # "U"
    /\ one_of_groups # <<>>

\* The step pops a branch that ended in Contradiction.
Rejects == Running /\ Len(stack) > 1 /\ Top.pc = "err" /\ Len(stack') = Len(stack) - 1

\* C15: nothing a branch does reaches the call that made it.  While a branch
\* runs its caller's frame does not change, and when the branch ends in
\* Contradiction the caller's store differs from what it was at the branching
\* only in the candidate, now Known(false); its groups are the same.
C15_BranchIsolated ==
    [][/\ \A i \in 1 .. Len(stack) - 1 :
              i < Len(stack') => stack'[i] = stack[i]
       /\ (Running /\ Top.pc = "branch" /\ Len(stack') > Len(stack)) =>
              /\ stack'[Len(stack)].nodes = Top.nodes
              /\ stack'[Len(stack)].groups = Top.groups
              /\ GetNode(Top.nodes, stack'[Len(stack)].candidate) = "U"
       /\ Rejects =>
              LET caller == stack[Len(stack) - 1]
                  after  == stack'[Len(stack) - 1]
              IN  /\ after.groups = caller.groups
                  /\ Len(after.nodes) = Len(caller.nodes)
                  /\ GetNode(after.nodes, caller.candidate) = "F"
                  /\ \A h \in Handles(caller.nodes) \ {caller.candidate} :
                         GetNode(after.nodes, h) = GetNode(caller.nodes, h)
                  /\ after.nodes[1] = caller.nodes[1]]_vars

\* A branch is about to be rejected after it has forced, in its own store, a
\* node other than the candidate that its caller still holds Unknown.
C15_Witness ==
    /\ Running
    /\ Len(stack) > 1
    /\ Top.pc = "err"
    /\ \E h \in Handles(Top.nodes) \ {stack[Len(stack) - 1].candidate} :
           /\ GetNode(stack[Len(stack) - 1].nodes, h) = "U"
           /\ GetNode(Top.nodes, h) # "U"

--------------------------------------------------------------------------
\* A step of the innermost call that stays in that call (a sweep or an
\* absorption scan).
InPlace == Running /\ Top.pc \in {"sweep", "absorb"} /\ Len(stack') = Len(stack)

\* set_node overwrites before it compares, so a write that failed has left a
\* slot that was known with the opposite value.
Flipped(a, b) ==
    \E n \in Handles(a) : GetNode(a, n) # "U" /\ GetNode(b, n) # GetNode(a, n)

\* The two ways the sweep itself returns Err, read in the store at that return:
\* a group with two true members (each occurrence counted), or a non-empty
\* exactly-one group whose members all read Some(false).
TwoTrue(nd, g) == Cardinality(TruePositions(nd, g)) >= 2

Exhausted(nd, g) ==
    /\ g.exact
    /\ g.nodes # <<>>
    /\ \A n \in Range(g.nodes) : GetNode(nd, n) = "F"

\* C16: no forced write inside solve fails.  A sweep or an absorption scan
\* never leaves a known slot with another value, not even when it ends in
\* Err; the absorption scan only writes to members that read None and never
\* ends in Err; the candidate of a branch reads None in the caller's store
\* both when the branch is opened and when it is rejected, and no call ever
\* stops at a failed unwrap().  An Err that a call raises itself comes from
\* the sweep, and the store at that moment shows a group with two true
\* members or an exhausted exactly-one group.
C16_NoWriteFails ==
    [][/\ InPlace =>
              LET after == stack'[Len(stack)]
              IN  /\ ~Flipped(Top.nodes, after.nodes)
                  /\ after.pc = "err" =>
                         /\ Top.pc = "sweep"
                         /\ \E i \in 1 .. Len(Top.groups) :
                                \/ TwoTrue(after.nodes, Top.groups[i])
                                \/ Exhausted(after.nodes, Top.groups[i])
                  /\ (Top.pc = "absorb" /\ after.nodes # Top.nodes) =>
                         \A n \in Handles(Top.nodes) :
                             GetNode(after.nodes, n) # GetNode(Top.nodes, n) =>
                                 /\ GetNode(Top.nodes, n) = "U"
                                 /\ GetNode(after.nodes, n) = "F"
       /\ (Running /\ Len(stack') > Len(stack)) =>
              /\ GetNode(Top.nodes, stack'[Len(stack)].candidate) = "U"
              /\ GetNode(stack'[Len(stack')].nodes, stack'[Len(stack)].candidate) = "T"
       /\ Rejects =>
              GetNode(stack[Len(stack) - 1].nodes, stack[Len(stack) - 1].candidate) = "U"
       /\ \A i \in 1 .. Len(stack') : stack'[i].pc # "panic"]_vars

\* A sweep has just forced a member and a later group of the same sweep then
\* failed: the call is about to return Err with a store that differs from the
\* one passed to solve.
C16_Witness ==
    /\ Running
    /\ Len(stack) = 1
    /\ Top.pc = "err"
    /\ \E n \in Handles(nodes) : GetNode(nodes, n) = "U" /\ GetNode(Top.nodes, n) # "U"

--------------------------------------------------------------------------
\* The one-to-one maps from the groups after a step to the groups before it
\* that leave out only empty groups (the cleanup drops those, the sort
\* reorders the rest).
Matchings(before, after) ==
    {f \in [1 .. Len(after) -> 1 .. Len(before)] :
        /\ \A i, k \in 1 .. Len(after) : f[i] = f[k] => i = k
        /\ \A j \in 1 .. Len(before) :
               (\A i \in 1 .. Len(after) : f[i] # j) => before[j].nodes = <<>>
        /\ \A i \in 1 .. Len(after) : after[i].exact = before[f[i]].exact}

\* Node n has left group `was`, which is now after[i], because an absorption
\* drained it while n is still a member of a shorter live exactly-one group
\* (lengths count each occurrence of a member, as the scan does).
LeftToNeedle(after, i, was, n) ==
    /\ after[i].nodes = <<>>
    /\ \E k \in 1 .. Len(after) :
           /\ k # i
           /\ after[k].exact
           /\ n \in Range(after[k].nodes)
           /\ Range(after[k].nodes) \subseteq Range(was.nodes)
           /\ Len(after[k].nodes) < Len(was.nodes)

\* From `before` to `after` no group gains a member, and a member that has left
\* its group is known in the store nd; with `drained`, a member may also have
\* left to the needle of an absorption.
Shrinks(before, after, nd, drained) ==
    \E f \in Matchings(before, after) :
        \A i \in 1 .. Len(after) :
            /\ Range(after[i].nodes) \subseteq Range(before[f[i]].nodes)
            /\ \A n \in Range(before[f[i]].nodes) \ Range(after[i].nodes) :
                   \/ GetNode(nd, n) # "U"
                   \/ drained /\ LeftToNeedle(after, i, before[f[i]], n)

\* Backtracking leaves the member sets alone: the branch starts with the
\* caller's groups, and a rejected branch leaves the caller's groups as they
\* were.
BranchKeepsGroups ==
    /\ (Running /\ Len(stack') > Len(stack)) =>
           /\ stack'[Len(stack')].groups = Top.groups
           /\ stack'[Len(stack)].groups = Top.groups
    /\ Rejects => stack'[Len(stack')].groups = stack[Len(stack) - 1].groups

\* C17 as stated: at every step of solve no group gains a member, and a node
\* leaves a group only when it is known in the store at the end of that step.
C17_LeavesOnlyWhenKnown ==
    [][/\ InPlace => Shrinks(Top.groups, stack'[Len(stack)].groups,
                             stack'[Len(stack)].nodes, FALSE)
       /\ BranchKeepsGroups]_vars

\* C17, amended: at every step of solve no group gains a member, and a node
\* leaves a group only when it is known in the store at the end of that step,
\* or when an absorption scan drains the larger group and the node is a member
\* of the smaller exactly-one group, which keeps it.
C17_LeavesKnownOrToNeedle ==
    [][/\ InPlace => Shrinks(Top.groups, stack'[Len(stack)].groups,
                             stack'[Len(stack)].nodes, Top.pc = "absorb")
       /\ BranchKeepsGroups]_vars

\* An absorption has just drained a group of three unknown nodes that held an
\* exactly-one group of two: the third node is false, the two others are still
\* unknown and no longer members of the larger group.
C17_Witness ==
    /\ Running
    /\ Len(stack) = 1
    /\ Top.pc = "sweep"
    /\ \A n \in Handles(nodes) : GetNode(nodes, n) = "U"
    /\ Len(one_of_groups) = 2
    /\ \E i, k \in 1 .. Len(Top.groups) :
           /\ Top.groups[i].nodes = <<>>
           /\ Top.groups[k].exact
           /\ Len(Top.groups[k].nodes) = 2
           /\ \A n \in Range(Top.groups[k].nodes) : GetNode(Top.nodes, n) = "U"
           /\ \E n \in Handles(nodes) : GetNode(Top.nodes, n) = "F"

--------------------------------------------------------------------------
\* The call f is at the backtracking fallback: its last sweep and its last
\* absorption scan changed nothing and groups remain.
AtFallback(f) == f.pc = "branch"

\* Every group of f is non-empty and every member reads None in the store of f.
LiveAndUnknown(f) ==
    \A i \in 1 .. Len(f.groups) :
        /\ f.groups[i].nodes # <<>>
        /\ \A n \in Range(f.groups[i].nodes) : GetNode(f.nodes, n) = "U"

NoPanic == \A i \in 1 .. Len(stack) : stack[i].pc # "panic"

\* C18 as stated: at the fallback every group is non-empty, every member of
\* every group reads None, and every exactly-one group has at least two
\* member nodes; no index or unwrap() fails.
C18_TwoNodesAtFallback ==
    /\ \A k \in 1 .. Len(stack) :
           AtFallback(stack[k]) =>
               /\ LiveAndUnknown(stack[k])
               /\ \A i \in ExactGroups(stack[k].groups) :
                      Cardinality(Range(stack[k].groups[i].nodes)) >= 2
    /\ NoPanic

\* C18, amended: at the fallback every group is non-empty, every member of
\* every group reads None, and every exactly-one group has at least two
\* entries, the occurrences of one node counted apart; no index or unwrap()
\* fails.
C18_TwoEntriesAtFallback ==
    /\ \A k \in 1 .. Len(stack) :
           AtFallback(stack[k]) =>
               /\ LiveAndUnknown(stack[k])
               /\ \A i \in ExactGroups(stack[k].groups) :
                      Len(stack[k].groups[i].nodes) >= 2
    /\ NoPanic

\* A branch has itself reached the fallback with an exactly-one group left.
C18_Witness ==
    /\ Running
    /\ Len(stack) > 1
    /\ AtFallback(Top)
    /\ ExactGroups(Top.groups) # {}

====
